---- MODULE Spec2Model ----
(***************************************************************************)
(* Tropospheric photochemistry simulator (atmos-script.js): rate model,    *)
(* kinetics right-hand side, RK4 integrator, simulation clock and the      *)
(* time-series buffer.                                                     *)
(*                                                                         *)
(* Number representation.  The program computes in IEEE doubles; the model *)
(* computes in fixed point with truncation toward zero (operator Q):       *)
(*   concentrations                   1/CScale ppb                         *)
(*   derivatives                      1/(CScale*Milli) ppb/s               *)
(*   bimolecular rate coefficients    1e-14 per unit, product / KScale     *)
(*     (a product k*a*b of the program is 1e-9 ppb/s and less, a millionth *)
(*     of the photolysis and emission terms it is added to and below the   *)
(*     resolution of the derivatives; the model carries these products     *)
(*     multiplied by 1e6, which keeps the sign of every term and the order *)
(*     among the bimolecular terms, not the order between a bimolecular    *)
(*     term and a photolysis or emission term)                             *)
(*   photolysis rate coefficients     1e-5 s^-1 per unit, product / JScale *)
(*   exp, cos, pow results            1/Milli                              *)
(*   sign of the cosine               exact (cosSign), so that a result    *)
(*                                    below the resolution is told from 0  *)
(*   solar zenith angle               1/Milli degree                       *)
(*   noxLevel                         1/Milli                              *)
(*   simSpeedFactor                   1/SpeedScale                         *)
(*   simulated time, dt               seconds (integers in the program)    *)
(*   wall clock                       milliseconds (as Date.now())         *)
(* The literals of the source keep their mantissas (2.45e-12 is 245).      *)
(***************************************************************************)
EXTENDS Integers, Sequences, FiniteSets, TLC

VARIABLES
    state,             \* the global `state` object
    timeSeriesData,    \* the global `timeSeriesData` object
    animationFrameId,  \* id of the scheduled frame callback, 0 for null
    lastUpdateTime,    \* wall-clock anchor (ms)
    simSpeedFactor,    \* speed multiplier
    timeStepSize,      \* dt (s)
    now,               \* host: what Date.now() returns
    pending,           \* host: frame callbacks requested and not cancelled
    download,          \* host: the rows of the file last offered for download
    loop,              \* position of the frame callback in its for loop
    stepsTaken,        \* history: stepSimulation calls since the last reset
    sampleStep,        \* history: value of stepsTaken at each buffered sample
    ticks,             \* history: runs of the tick body since the last reset
    inputs             \* history: parameter, preset and export inputs so far

vars == <<state, timeSeriesData, animationFrameId, lastUpdateTime, simSpeedFactor,
          timeStepSize, now, pending, download, loop, stepsTaken, sampleStep, ticks,
          inputs>>

----------------------------------------------------------------------------
(* Fixed-point scales *)

CScale == 1000
KScale == 100000
JScale == 100
Milli == 1000
SpeedScale == 10

Max(a, b) == IF a >= b THEN a ELSE b
Min(a, b) == IF a <= b THEN a ELSE b
Abs(a) == IF a >= 0 THEN a ELSE 0 - a

\* a / b truncated toward zero, as a sign-symmetric rounding
Q(a, b) == IF a >= 0 THEN a \div b ELSE 0 - ((0 - a) \div b)

----------------------------------------------------------------------------
(* Species and presets *)

SpeciesOrder == <<"CH4", "CO", "CO2", "OH", "HO2", "O3", "NO", "NO2", "CH3O2", "CH2O">>
SPECIES == {SpeciesOrder[i] : i \in 1..Len(SpeciesOrder)}

presets ==
    [background |->
        [CH4 |-> 1800000, CO |-> 100000, CO2 |-> 400000000, OH |-> 100, HO2 |-> 10000,
         O3 |-> 40000, NO |-> 500, NO2 |-> 500, CH3O2 |-> 10, CH2O |-> 1000],
     polluted |->
        [CH4 |-> 2000000, CO |-> 500000, CO2 |-> 450000000, OH |-> 50, HO2 |-> 20000,
         O3 |-> 80000, NO |-> 5000, NO2 |-> 10000, CH3O2 |-> 100, CH2O |-> 5000],
     clean |->
        [CH4 |-> 1750000, CO |-> 50000, CO2 |-> 400000000, OH |-> 200, HO2 |-> 5000,
         O3 |-> 30000, NO |-> 100, NO2 |-> 100, CH3O2 |-> 5, CH2O |-> 500]]

\* The property names an object literal inherits from Object.prototype: a
\* lookup obj[name] with one of them finds a function (an object for
\* __proto__), not undefined
ObjectPrototype ==
    {"constructor", "hasOwnProperty", "isPrototypeOf", "propertyIsEnumerable",
     "toLocaleString", "toString", "valueOf", "__proto__", "__defineGetter__",
     "__defineSetter__", "__lookupGetter__", "__lookupSetter__"}

\* A JavaScript object is a function from its keys; {} has no key.
EmptyObject == <<>>

\* An object built key by key, evaluated once
Object(obj) == IF obj = obj THEN obj ELSE obj

\* obj[key] = value: the key is added when the object does not have it
Assign(obj, key, value) ==
    LET entry(k) == IF k = key THEN value ELSE obj[k]
    IN  Object([k \in DOMAIN obj \cup {key} |-> entry(k)])

\* initializeConcentrations creating every series anew, whether or not the
\* species has one
initializeConcentrationsNewSeries(w, preset) ==
    LET initialValues ==
            CASE preset \in DOMAIN presets -> presets[preset]
              [] preset \notin DOMAIN presets \cup ObjectPrototype ->
                    presets["background"]
        old == w.state.concentrations
        series == w.timeSeriesData.concentrations
        conc(sp) == IF sp \in SPECIES THEN initialValues[sp] ELSE old[sp]
        data(sp) == IF sp \in SPECIES THEN <<>> ELSE series[sp]
    IN  [w EXCEPT !.state.concentrations =
                      Object([name \in DOMAIN old \cup SPECIES |-> conc(name)]),
                  !.timeSeriesData.concentrations =
                      Object([name \in DOMAIN series \cup SPECIES |-> data(name)])]

\* initialValues[sp] is a number for every species: for a name of
\* ObjectPrototype presets[preset] is an inherited function or object, which
\* presets[preset] || presets.background keeps, and initialValues[sp] is
\* undefined
initialValuesDefined(preset) == preset \notin ObjectPrototype

\* initializeConcentrations setting simulated time back to 0 as well
initializeConcentrationsRestart(w, preset) ==
    LET initialValues ==
            CASE preset \in DOMAIN presets -> presets[preset]
              [] preset \notin DOMAIN presets \cup ObjectPrototype ->
                    presets["background"]
        old == w.state.concentrations
        series == w.timeSeriesData.concentrations
        conc(sp) == IF sp \in SPECIES THEN initialValues[sp] ELSE old[sp]
        data(sp) == IF sp \in DOMAIN series THEN series[sp] ELSE <<>>
    IN  [w EXCEPT !.state.time = 0,
                  !.state.concentrations =
                      Object([name \in DOMAIN old \cup SPECIES |-> conc(name)]),
                  !.timeSeriesData.concentrations =
                      Object([name \in DOMAIN series \cup SPECIES |-> data(name)])]

\* presets[preset] || presets.background, then for every species the assignment
\* of its value and the creation of its series if it has none; w holds the
\* globals (see World)
initializeConcentrations(w, preset) ==
    LET initialValues ==
            CASE preset \in DOMAIN presets -> presets[preset]
              [] preset \notin DOMAIN presets \cup ObjectPrototype ->
                    presets["background"]
        old == w.state.concentrations
        series == w.timeSeriesData.concentrations
        conc(sp) == IF sp \in SPECIES THEN initialValues[sp] ELSE old[sp]
        data(sp) == IF sp \in DOMAIN series THEN series[sp] ELSE <<>>
    IN  [w EXCEPT !.state.concentrations =
                      Object([name \in DOMAIN old \cup SPECIES |-> conc(name)]),
                  !.timeSeriesData.concentrations =
                      Object([name \in DOMAIN series \cup SPECIES |-> data(name)])]

----------------------------------------------------------------------------
(* Elementary functions in fixed point *)

\* Taylor term n of a series in x from term n - 1, d being n (for exp) or
\* (2n - 1) * 2n (for cos)
NextTerm(term, x, d) == Q(term * x, d * Milli)

\* sum of the Taylor terms 1..12 of exp(x)
ExpTerms(x) ==
    LET t1 == NextTerm(Milli, x, 1)
        t2 == NextTerm(t1, x, 2)
        t3 == NextTerm(t2, x, 3)
        t4 == NextTerm(t3, x, 4)
        t5 == NextTerm(t4, x, 5)
        t6 == NextTerm(t5, x, 6)
        t7 == NextTerm(t6, x, 7)
        t8 == NextTerm(t7, x, 8)
        t9 == NextTerm(t8, x, 9)
        t10 == NextTerm(t9, x, 10)
        t11 == NextTerm(t10, x, 11)
        t12 == NextTerm(t11, x, 12)
    IN  ((t1 + t2 + t3) + (t4 + t5 + t6)) + ((t7 + t8 + t9) + (t10 + t11 + t12))

\* Math.exp
Exp(x) == Max(0, Milli + ExpTerms(x))

\* sum of the Taylor terms 1..8 of cos, x2 being x squared
CosTerms(x2) ==
    LET t1 == 0 - NextTerm(Milli, x2, 1 * 2)
        t2 == 0 - NextTerm(t1, x2, 3 * 4)
        t3 == 0 - NextTerm(t2, x2, 5 * 6)
        t4 == 0 - NextTerm(t3, x2, 7 * 8)
        t5 == 0 - NextTerm(t4, x2, 9 * 10)
        t6 == 0 - NextTerm(t5, x2, 11 * 12)
        t7 == 0 - NextTerm(t6, x2, 13 * 14)
        t8 == 0 - NextTerm(t7, x2, 15 * 16)
    IN  ((t1 + t2) + (t3 + t4)) + ((t5 + t6) + (t7 + t8))

\* Math.cos
Cos(x) == Milli + CosTerms(Q(x * x, Milli))

\* largest r in 0..hi with r^p <= v (p is 2 or 5)
Root(v, p, hi) ==
    CHOOSE r \in 0..hi :
        /\ (IF p = 2 THEN r * r ELSE r * r * r * r * r) <= v
        /\ r = hi \/ (IF p = 2 THEN (r + 1) * (r + 1)
                       ELSE (r + 1) * (r + 1) * (r + 1) * (r + 1) * (r + 1)) > v

\* Math.pow(x, n) for 0 <= x <= 1 and the exponents of the photolysis table,
\* n in tenths: x^1.5 = x * sqrt(x), x^1.2 = x * x^(1/5)
Pow(x, n) ==
    CASE n = 10 -> x
      [] n = 15 -> Q(x * Root(x * 10, 2, 100), 100)
      [] n = 12 -> Q(x * Root(x * 100, 5, 10), 10)
      [] OTHER -> x

----------------------------------------------------------------------------
(* Chemical kinetics *)

\* Gas constant 8.314 J/(mol K), in 1/Milli
R == 8314

\* Arrhenius equation: k = A * exp(-Ea/RT)
arrhenius(A, Ea, T) == Q(A * Exp(Q((0 - Ea) * Milli * Milli, R * T)), Milli)

PhotolysisNames == {"NO2_photolysis", "O3_to_O1D", "CH2O_photolysis"}

jValues ==
    [NO2_photolysis  |-> [j0 |-> 800, n |-> 10],
     O3_to_O1D       |-> [j0 |-> 3,   n |-> 15],
     CH2O_photolysis |-> [j0 |-> 5,   n |-> 12]]

\* Photolysis rate (J-value); sza in 1/Milli degree.  pi/180 = 0.01745
calculateJValue(reaction, sza) ==
    LET szaRad == Q(sza * 1745, 100000)
        cosSza == Max(0, Cos(szaRad))
    IN  CASE reaction \in PhotolysisNames ->
                Q(jValues[reaction].j0 * Pow(cosSza, jValues[reaction].n), Milli)
          [] reaction \notin PhotolysisNames \cup ObjectPrototype -> 0

\* calculateJValue(reaction, sza) is NaN: for a name of ObjectPrototype params
\* is an inherited function or object, !params is false, params.j0 and
\* params.n are undefined and the product is NaN
calculateJValueIsNaN(reaction) == reaction \in ObjectPrototype

\* The sign of Math.cos(sza * Math.PI / 180) in double arithmetic, for sza from
\* 0 to 270 degrees.  Math.PI is the double next below pi, so for sza = 90 the
\* argument is the double next below pi/2 and the cosine computed is
\* 6.123e-17, a positive number below the resolution of Cos; for a larger sza
\* the cosine computed is negative.
cosSign(sza) == IF sza <= 90 * Milli THEN 1 ELSE 0 - 1

\* calculateJValue(reaction, sza) === 0 in double arithmetic: the reaction has
\* no parameters, or Math.max(0, Math.cos(szaRad)) is 0 (a positive cosine
\* gives a positive power and a positive product, none of them underflows)
calculateJValueIsZero(reaction, sza) ==
    /\ ~calculateJValueIsNaN(reaction)
    /\ reaction \notin PhotolysisNames \/ Max(0, cosSign(sza)) = 0

\* getRateConstant(reactionName, T, P, sza) === 0 for the three photolysis
\* entries of the table rates
photolysisIsZero(reactionName, sza) ==
    CASE reactionName = "CH2O_photolysis" ->
            calculateJValueIsZero("CH2O_photolysis", sza)
      [] reactionName = "NO2_photolysis" ->
            calculateJValueIsZero("NO2_photolysis", sza)
      [] reactionName = "O3_photolysis" ->
            calculateJValueIsZero("O3_to_O1D", sza)

ReactionNames ==
    {"CH4_OH", "CH3_O2", "CH3O2_NO", "CH2O_OH", "CH2O_photolysis",
     "CO_OH", "NO_O3", "NO2_photolysis", "NO2_OH", "HO2_NO",
     "O_O2_M", "O3_photolysis", "O1D_H2O", "OH_HO2", "HO2_HO2"}

\* Air density P*100/(kb*T)*1e-6 in 1e17 molecules/cm3 (7.241e18 * P/T)
AirDensity(T, P) == Q(P * 7241, T * 100)

\* Math.pow(T/300, -2.4) = (300/T)^2 * ((300/T)^2)^(1/5), in 1/Milli
PowT(T) ==
    LET r2 == Q(Q(300 * Milli, T) * Q(300 * Milli, T), Milli)
    IN  Q(r2 * Root(r2 * 100, 5, 20), 10)

\* rates[reactionName] || 0
getRateConstant(reactionName, T, P, sza) ==
    CASE reactionName = "CH4_OH" -> arrhenius(245, 0 - 1775, T)
      [] reactionName = "CH3_O2" -> 100
      [] reactionName = "CH3O2_NO" -> 280
      [] reactionName = "CH2O_OH" -> 550
      [] reactionName = "CH2O_photolysis" -> calculateJValue("CH2O_photolysis", sza)
      [] reactionName = "CO_OH" ->
            Q(arrhenius(15, 0, T) * (Milli + Q(600 * P, 1013)), Milli)
      [] reactionName = "NO_O3" -> arrhenius(300, 1500, T)
      [] reactionName = "NO2_photolysis" -> calculateJValue("NO2_photolysis", sza)
      [] reactionName = "NO2_OH" -> arrhenius(1200, 0, T)
      [] reactionName = "HO2_NO" -> arrhenius(350, 0 - 250, T)
      [] reactionName = "O_O2_M" -> Q(Q(6 * PowT(T), Milli) * AirDensity(T, P), Milli)
      [] reactionName = "O3_photolysis" -> calculateJValue("O3_to_O1D", sza)
      [] reactionName = "O1D_H2O" -> 16300
      [] reactionName = "OH_HO2" -> 4800
      [] reactionName = "HO2_HO2" -> 23
      [] reactionName \notin ReactionNames \cup ObjectPrototype -> 0

\* typeof getRateConstant(reactionName, T, P, sza) is "number": for a name of
\* ObjectPrototype rates[reactionName] is an inherited function or object,
\* which rates[reactionName] || 0 returns as it is
getRateConstantIsNumber(reactionName) == reactionName \notin ObjectPrototype

\* k * a: a bimolecular rate coefficient times a concentration
KC(k, a) == Q(k * a, KScale)
\* j * a: a photolysis rate coefficient times a concentration
JC(j, a) == Q(j * a, JScale)
\* x * a: a product of concentrations
CC(x, a) == Q(x * a, CScale)

\* the table with the first rate looked up under a misspelt name (CH4_0H)
rateConstantsMisspelt(T, P, sza) ==
    LET rate(rxn) == getRateConstant(rxn, T, P, sza)
    IN  [CH4_OH |-> rate("CH4_0H"), CH3_O2 |-> rate("CH3_O2"),
         CH3O2_NO |-> rate("CH3O2_NO"), CH2O_OH |-> rate("CH2O_OH"),
         CH2O_photolysis |-> rate("CH2O_photolysis"), CO_OH |-> rate("CO_OH"),
         NO_O3 |-> rate("NO_O3"), NO2_photolysis |-> rate("NO2_photolysis"),
         NO2_OH |-> rate("NO2_OH"), HO2_NO |-> rate("HO2_NO"),
         O_O2_M |-> rate("O_O2_M"), O3_photolysis |-> rate("O3_photolysis"),
         O1D_H2O |-> rate("O1D_H2O"), OH_HO2 |-> rate("OH_HO2"),
         HO2_HO2 |-> rate("HO2_HO2")]

\* the table k of calculateRates: k[rxn] = getRateConstant(rxn, T, P, sza)
rateConstants(T, P, sza) ==
    LET rate(rxn) == getRateConstant(rxn, T, P, sza)
    IN  [CH4_OH |-> rate("CH4_OH"), CH3_O2 |-> rate("CH3_O2"),
         CH3O2_NO |-> rate("CH3O2_NO"), CH2O_OH |-> rate("CH2O_OH"),
         CH2O_photolysis |-> rate("CH2O_photolysis"), CO_OH |-> rate("CO_OH"),
         NO_O3 |-> rate("NO_O3"), NO2_photolysis |-> rate("NO2_photolysis"),
         NO2_OH |-> rate("NO2_OH"), HO2_NO |-> rate("HO2_NO"),
         O_O2_M |-> rate("O_O2_M"), O3_photolysis |-> rate("O3_photolysis"),
         O1D_H2O |-> rate("O1D_H2O"), OH_HO2 |-> rate("OH_HO2"),
         HO2_HO2 |-> rate("HO2_HO2")]

\* derivatives without the CO2 that the oxidation of CO yields
derivativesCarbonLost(c, k) ==
    LET rCH4_OH == CC(KC(k["CH4_OH"], c["CH4"]), c["OH"])
        rCH3O2_NO == CC(KC(k["CH3O2_NO"], c["CH3O2"]), c["NO"])
        rCH2O_OH == CC(KC(k["CH2O_OH"], c["CH2O"]), c["OH"])
        rCH2O_hv == JC(k["CH2O_photolysis"], c["CH2O"])
        rCO_OH == CC(KC(k["CO_OH"], c["CO"]), c["OH"])
        rNO_O3 == CC(KC(k["NO_O3"], c["NO"]), c["O3"])
        rNO2_hv == JC(k["NO2_photolysis"], c["NO2"])
        rNO2_OH == CC(KC(k["NO2_OH"], c["NO2"]), c["OH"])
        rHO2_NO == CC(KC(k["HO2_NO"], c["HO2"]), c["NO"])
        rO3_hv == JC(k["O3_photolysis"], c["O3"])
        rOH_HO2 == CC(KC(k["OH_HO2"], c["OH"]), c["HO2"])
        rHO2_HO2 == CC(KC(k["HO2_HO2"], c["HO2"]), c["HO2"])
    IN  [CH4   |-> 0 - rCH4_OH,
         CH3O2 |-> rCH4_OH - rCH3O2_NO,
         CH2O  |-> rCH3O2_NO - rCH2O_OH - rCH2O_hv,
         CO    |-> rCH2O_OH + rCH2O_hv - rCO_OH,
         CO2   |-> 0,
         OH    |-> Q(JC(2 * k["O3_photolysis"], c["O3"]) * 2, 10)
                   + rHO2_NO - rCH4_OH - rCH2O_OH - rCO_OH - rNO2_OH - rOH_HO2,
         HO2   |-> rCH3O2_NO + rCH2O_OH - rHO2_NO - rOH_HO2 - rHO2_HO2,
         NO    |-> rNO2_hv - rNO_O3 - rCH3O2_NO - rHO2_NO,
         NO2   |-> rNO_O3 + rCH3O2_NO + rHO2_NO - rNO2_hv - rNO2_OH,
         O3    |-> rNO2_hv - rNO_O3 - rO3_hv]

\* the derivatives dcdt of calculateRates, from the concentrations and the table k
derivatives(c, k) ==
    LET rCH4_OH == CC(KC(k["CH4_OH"], c["CH4"]), c["OH"])
        rCH3O2_NO == CC(KC(k["CH3O2_NO"], c["CH3O2"]), c["NO"])
        rCH2O_OH == CC(KC(k["CH2O_OH"], c["CH2O"]), c["OH"])
        rCH2O_hv == JC(k["CH2O_photolysis"], c["CH2O"])
        rCO_OH == CC(KC(k["CO_OH"], c["CO"]), c["OH"])
        rNO_O3 == CC(KC(k["NO_O3"], c["NO"]), c["O3"])
        rNO2_hv == JC(k["NO2_photolysis"], c["NO2"])
        rNO2_OH == CC(KC(k["NO2_OH"], c["NO2"]), c["OH"])
        rHO2_NO == CC(KC(k["HO2_NO"], c["HO2"]), c["NO"])
        rO3_hv == JC(k["O3_photolysis"], c["O3"])
        rOH_HO2 == CC(KC(k["OH_HO2"], c["OH"]), c["HO2"])
        rHO2_HO2 == CC(KC(k["HO2_HO2"], c["HO2"]), c["HO2"])
    IN  [CH4   |-> 0 - rCH4_OH,
         CH3O2 |-> rCH4_OH - rCH3O2_NO,
         CH2O  |-> rCH3O2_NO - rCH2O_OH - rCH2O_hv,
         CO    |-> rCH2O_OH + rCH2O_hv - rCO_OH,
         CO2   |-> rCO_OH,
         OH    |-> Q(JC(2 * k["O3_photolysis"], c["O3"]) * 2, 10)
                   + rHO2_NO - rCH4_OH - rCH2O_OH - rCO_OH - rNO2_OH - rOH_HO2,
         HO2   |-> rCH3O2_NO + rCH2O_OH - rHO2_NO - rOH_HO2 - rHO2_HO2,
         NO    |-> rNO2_hv - rNO_O3 - rCH3O2_NO - rHO2_NO,
         NO2   |-> rNO_O3 + rCH3O2_NO + rHO2_NO - rNO2_hv - rNO2_OH,
         O3    |-> rNO2_hv - rNO_O3 - rO3_hv]

\* Rates of change (ppb/s) of every species
calculateRates(c, T, P, sza) == derivatives(c, rateConstants(T, P, sza))

----------------------------------------------------------------------------
(* Numerical solver (RK4) *)

\* addEmissions with the rates taken per hour instead of per day
addEmissionsPerHour(dcdt, emissions) ==
    [dcdt EXCEPT !["CH4"] = @ + Q(emissions.CH4 * CScale * Milli, 3600),
                 !["CO"] = @ + Q(emissions.CO * CScale * Milli, 3600)]

\* Add emissions (ppb/day -> ppb/s); emissions in ppb/day
addEmissions(dcdt, emissions) ==
    [dcdt EXCEPT !["CH4"] = @ + Q(emissions.CH4 * CScale * Milli, 86400),
                 !["CO"] = @ + Q(emissions.CO * CScale * Milli, 86400)]

\* Math.max(0, c[sp] + f * k[sp]) for every species, f = num/den
stage(c, num, den, k) ==
    LET value(sp) == Max(0, c[sp] + Q(num * k[sp], den * Milli))
    IN  Object([name \in DOMAIN c |-> value(name)])

\* combine with the positivity enforcement left out
combineUnclamped(c, dt, k1, k2, k3, k4) ==
    LET cNew(sp) == c[sp] + Q(dt * (k1[sp] + 2 * k2[sp] + 2 * k3[sp] + k4[sp]),
                              6 * Milli)
    IN  Object([name \in DOMAIN c |-> cNew(name)])

\* combine with the increment subtracted instead of added
combineBackward(c, dt, k1, k2, k3, k4) ==
    LET cNew(sp) == Max(0, c[sp] - Q(dt * (k1[sp] + 2 * k2[sp] + 2 * k3[sp] + k4[sp]),
                                     6 * Milli))
    IN  Object([name \in DOMAIN c |-> cNew(name)])

\* cNew[sp] = Math.max(0, c[sp] + (dt / 6) * (k1 + 2 k2 + 2 k3 + k4)[sp])
combine(c, dt, k1, k2, k3, k4) ==
    LET cNew(sp) == Max(0, c[sp] + Q(dt * (k1[sp] + 2 * k2[sp] + 2 * k3[sp] + k4[sp]),
                                     6 * Milli))
    IN  Object([name \in DOMAIN c |-> cNew(name)])

\* The four stages, k being the table of rate coefficients
stages(c, dt, emissions, k) ==
    LET k1 == addEmissions(derivatives(c, k), emissions)
        c2 == stage(c, dt, 2, k1)
        k2 == addEmissions(derivatives(c2, k), emissions)
        c3 == stage(c, dt, 2, k2)
        k3 == addEmissions(derivatives(c3, k), emissions)
        c4 == stage(c, dt, 1, k3)
        k4 == addEmissions(derivatives(c4, k), emissions)
    IN  IF /\ k1 = k1                       \* evaluated in the order of the code
           /\ c2 = c2
           /\ k2 = k2
           /\ c3 = c3
           /\ k3 = k3
           /\ c4 = c4
           /\ k4 = k4
        THEN combine(c, dt, k1, k2, k3, k4)
        ELSE c

\* The four calculateRates(., T, P, sza) calls of one step build the same table
\* of rate coefficients; it is evaluated once.
rk4Step(c, dt, T, P, sza, emissions) ==
    CHOOSE cNew \in {stages(c, dt, emissions, k) : k \in {rateConstants(T, P, sza)}} :
        TRUE

----------------------------------------------------------------------------
(* rk4Step on object references.  A heap is a sequence of objects, an object *)
(* reference an index of it; `{}` appends an object, an assignment to a      *)
(* property replaces the object at its reference.                            *)

\* const dcdt = {}; dcdt.X = ...; return dcdt: the new object has reference
\* Len(heap) + 1; k is the table of rate coefficients
calculateRatesHeap(heap, c, k) == Append(heap, derivatives(heap[c], k))

\* dcdt.CH4 += emissions.CH4 / 86400; dcdt.CO += emissions.CO / 86400
addEmissionsHeap(heap, dcdt, emissions) ==
    [heap EXCEPT ![dcdt] = addEmissions(@, heap[emissions])]

\* k_i = addEmissions(calculateRates(c_i, T, P, sza)), at reference Len(heap) + 1
ratesHeap(heap, c, k, emissions) ==
    addEmissionsHeap(calculateRatesHeap(heap, c, k), Len(heap) + 1, emissions)

\* const c_i = {}; c_i[sp] = Math.max(0, c[sp] + f * k_j[sp]) for every key of c,
\* at reference Len(heap) + 1
stageHeap(heap, c, num, den, kj) ==
    Append(heap, stage(heap[c], num, den, heap[kj]))

\* the update written into c itself, and c returned
combineHeapInPlace(heap, c, dt, k1, k2, k3, k4) ==
    [heap |-> [heap EXCEPT ![c] = combine(heap[c], dt, heap[k1], heap[k2],
                                           heap[k3], heap[k4])],
     ref |-> c]

\* const cNew = {}; cNew[sp] = ... for every key of c; return cNew
combineHeap(heap, c, dt, k1, k2, k3, k4) ==
    [heap |-> Append(heap, combine(heap[c], dt, heap[k1], heap[k2],
                                   heap[k3], heap[k4])),
     ref |-> Len(heap) + 1]

\* The objects of one call, n being the number of objects before it:
\* k1 = n + 1, c2 = n + 2, k2 = n + 3, c3 = n + 4, k3 = n + 5, c4 = n + 6,
\* k4 = n + 7; the result is the heap after the call and the reference returned
stagesHeap(heap, n, c, dt, emissions, k) ==
    CHOOSE r \in
        {combineHeap(h7, c, dt, n + 1, n + 3, n + 5, n + 7) : h7 \in
        {ratesHeap(h6, n + 6, k, emissions) : h6 \in
        {stageHeap(h5, c, dt, 1, n + 5) : h5 \in
        {ratesHeap(h4, n + 4, k, emissions) : h4 \in
        {stageHeap(h3, c, dt, 2, n + 3) : h3 \in
        {ratesHeap(h2, n + 2, k, emissions) : h2 \in
        {stageHeap(h1, c, dt, 2, n + 1) : h1 \in
        {ratesHeap(heap, c, k, emissions)}}}}}}}} : TRUE

rk4StepHeap(heap, c, dt, T, P, sza, emissions) ==
    CHOOSE r \in {stagesHeap(heap, Len(heap), c, dt, emissions, k) :
                     k \in {rateConstants(T, P, sza)}} : TRUE

----------------------------------------------------------------------------
(* Bounds and input sets of the model *)

MaxTicks == 3         \* runs of the tick body explored between two resets
MaxNow == 630000      \* wall-clock horizon (ms)
MaxInputs == 1        \* parameter, preset and export inputs explored in one run

Delays == {315000}                \* wall-clock time between two events (ms)
Temperatures == {320}             \* K
Pressures == {500}                \* hPa
ZenithAngles == {90000}           \* 1/Milli degree
EmissionRates == {0}              \* ppb/day
NoxLevels == {2000}               \* 1/Milli
SpeedFactors == {5}               \* 1/SpeedScale
TimeSteps == {30}                 \* s
PresetInputs == {"background", "polluted", "clean"}


----------------------------------------------------------------------------
(* Simulation control *)

\* The mutable program and host state a handler works on
World ==
    [state |-> state, timeSeriesData |-> timeSeriesData,
     animationFrameId |-> animationFrameId, lastUpdateTime |-> lastUpdateTime,
     pending |-> pending, stepsTaken |-> stepsTaken, sampleStep |-> sampleStep,
     ticks |-> ticks]

Install(w) ==
    /\ state' = w.state
    /\ timeSeriesData' = w.timeSeriesData
    /\ animationFrameId' = w.animationFrameId
    /\ lastUpdateTime' = w.lastUpdateTime
    /\ pending' = w.pending
    /\ stepsTaken' = w.stepsTaken
    /\ sampleStep' = w.sampleStep
    /\ ticks' = w.ticks

\* updateDiurnalCycle with the 15 degrees per hour of the hour angle
updateDiurnalCycleHourAngle(st) ==
    IF ~st.diurnalCycle THEN st
    ELSE LET sza == Q(Abs(12 * 3600 - (st.time % (24 * 3600))) * 15000, 3600)
         IN  [st EXCEPT !.solarZenithAngle = Min(90 * Milli, sza)]

\* updateDiurnalCycle without its early return when the toggle is off
updateDiurnalCycleAlways(st) ==
    LET sza == Q(Abs(12 * 3600 - (st.time % (24 * 3600))) * 7500, 3600)
    IN  [st EXCEPT !.solarZenithAngle = Min(90 * Milli, sza)]

\* sza = min(90, |12 - hours| * 7.5), hours = (time / 3600) % 24
updateDiurnalCycle(st) ==
    IF ~st.diurnalCycle THEN st
    ELSE LET sza == Q(Abs(12 * 3600 - (st.time % (24 * 3600))) * 7500, 3600)
         IN  [st EXCEPT !.solarZenithAngle = Min(90 * Milli, sza)]

\* a sample stored by every step
storeDataAlways(ts, st, dt) == TRUE

\* Store data every 10 time steps: the test of stepSimulation on the state st
\* the step has produced
storeData(ts, st, dt) ==
    Len(ts.time) = 0 \/ st.time - ts.time[Len(ts.time)] >= dt * 10

\* timeSeriesData.time.push(state.time) and one push per species
pushData(ts, st) ==
    LET push(sp) == Append(ts.concentrations[sp], st.concentrations[sp])
    IN  [time |-> Append(ts.time, st.time),
         concentrations |-> Object([name \in SPECIES |-> push(name)])]

\* record with the sample taken from the concentrations before the step
recordBefore(w, st, dt) ==
    IF storeData(w.timeSeriesData, st, dt)
    THEN [w EXCEPT !.state = st,
                   !.timeSeriesData =
                       pushData(@, [st EXCEPT !.concentrations = w.state.concentrations]),
                   !.stepsTaken = @ + 1,
                   !.sampleStep = Append(@, w.stepsTaken + 1)]
    ELSE [w EXCEPT !.state = st,
                   !.stepsTaken = @ + 1]

\* the part of stepSimulation after the state update; st is the updated state
record(w, st, dt) ==
    IF storeData(w.timeSeriesData, st, dt)
    THEN [w EXCEPT !.state = st,
                   !.timeSeriesData = pushData(@, st),
                   !.stepsTaken = @ + 1,
                   !.sampleStep = Append(@, w.stepsTaken + 1)]
    ELSE [w EXCEPT !.state = st,
                   !.stepsTaken = @ + 1]

\* the state update of stepSimulation: concentrations, time, then zenith angle
advance(st, dt) ==
    updateDiurnalCycle(
        [st EXCEPT !.concentrations = rk4Step(st.concentrations, dt, st.temperature,
                                              st.pressure, st.solarZenithAngle,
                                              st.emissions),
                   !.time = @ + dt])

stepSimulation(w, dt) ==
    CHOOSE after \in {record(w, st, dt) : st \in {advance(w.state, dt)}} : TRUE

\* the loop replaced by one step of size numSteps * dt
stepLoopOneStep(w, i, numSteps, dt) == stepSimulation(w, numSteps * dt)

RECURSIVE stepLoop(_, _, _, _)
\* for (let i = 0; i < numSteps; i++) stepSimulation(dt): the iterations
\* i .. numSteps - 1 on w, in order, as those of the first half of the range
\* followed by those of the second half
stepLoop(w, i, numSteps, dt) ==
    IF i >= numSteps THEN w
    ELSE IF i + 1 = numSteps THEN stepSimulation(w, dt)
    ELSE CHOOSE after \in {stepLoop(half, (i + numSteps) \div 2, numSteps, dt) :
                              half \in {stepLoop(w, i, (i + numSteps) \div 2, dt)}} :
             TRUE

\* elapsed simulated time in ms: (currentTime - lastUpdateTime) / 1000 * simSpeedFactor
Elapsed(currentTime, anchor, speed) == Q((currentTime - anchor) * speed, SpeedScale)

\* Math.floor(elapsed / timeStepSize), without the minimum of one step
NumStepsFloor(elapsed, dt) == elapsed \div (dt * Milli)

\* Math.max(1, Math.floor(elapsed / timeStepSize))
NumSteps(elapsed, dt) == Max(1, elapsed \div (dt * Milli))

\* requestAnimationFrame: a handle no live request carries
NewFrameId(live) == CHOOSE id \in 1..(Cardinality(live) + 1) : id \notin live

\* runSimulation without its test of state.isRunning
runSimulationUnguarded(w, currentTime, speed, dt) ==
    LET numSteps == NumSteps(Elapsed(currentTime, w.lastUpdateTime, speed), dt)
        stepped == stepLoop([w EXCEPT !.lastUpdateTime = currentTime],
                            0, numSteps, dt)
        id == NewFrameId(w.pending)
    IN  [stepped EXCEPT !.animationFrameId = id, !.pending = @ \cup {id},
                        !.ticks = @ + 1]

runSimulation(w, currentTime, speed, dt) ==
    IF ~w.state.isRunning THEN w
    ELSE LET numSteps == NumSteps(Elapsed(currentTime, w.lastUpdateTime, speed), dt)
             stepped == stepLoop([w EXCEPT !.lastUpdateTime = currentTime],
                                 0, numSteps, dt)
             id == NewFrameId(w.pending)
         IN  [stepped EXCEPT !.animationFrameId = id, !.pending = @ \cup {id},
                             !.ticks = @ + 1]

\* startSimulation without its test of state.isRunning
startSimulationUnguarded(w, currentTime, speed, dt) ==
    runSimulation([w EXCEPT !.state.isRunning = TRUE,
                            !.lastUpdateTime = currentTime],
                  currentTime, speed, dt)

startSimulation(w, currentTime, speed, dt) ==
    IF w.state.isRunning THEN w
    ELSE runSimulation([w EXCEPT !.state.isRunning = TRUE,
                                 !.lastUpdateTime = currentTime],
                       currentTime, speed, dt)

\* pauseSimulation without cancelAnimationFrame
pauseSimulationNoCancel(w) ==
    [w EXCEPT !.state.isRunning = FALSE, !.animationFrameId = 0]

pauseSimulation(w) ==
    LET stopped == [w EXCEPT !.state.isRunning = FALSE]
    IN  IF w.animationFrameId # 0
        THEN [stopped EXCEPT !.pending = @ \ {w.animationFrameId},
                             !.animationFrameId = 0]
        ELSE stopped

\* resetSimulation without the call of initializeConcentrations
resetSimulationNoReload(w) ==
    [pauseSimulation(w) EXCEPT !.state.time = 0,
                               !.state.solarZenithAngle = 0,
                               !.timeSeriesData.time = <<>>,
                               !.timeSeriesData.concentrations =
                                   [sp \in SPECIES |-> <<>>],
                               !.stepsTaken = 0,
                               !.sampleStep = <<>>,
                               !.ticks = 0]

\* resetSimulation switching the diurnal cycle back on as well
resetSimulationDiurnalOn(w) ==
    LET p == pauseSimulation(w)
        empty(sp) == <<>>
        cleared == [p EXCEPT !.state.time = 0,
                             !.state.diurnalCycle = TRUE,
                             !.state.solarZenithAngle = 0,
                             !.timeSeriesData.time = <<>>,
                             !.timeSeriesData.concentrations =
                                 Object([name \in SPECIES |-> empty(name)]),
                             !.stepsTaken = 0,
                             !.sampleStep = <<>>,
                             !.ticks = 0]
    IN  initializeConcentrations(cleared, "background")

\* resetSimulation without the assignment timeSeriesData.time = []
resetSimulationKeepTimes(w) ==
    LET p == pauseSimulation(w)
        empty(sp) == <<>>
        cleared == [p EXCEPT !.state.time = 0,
                             !.state.solarZenithAngle = 0,
                             !.timeSeriesData.concentrations =
                                 Object([name \in SPECIES |-> empty(name)]),
                             !.stepsTaken = 0,
                             !.sampleStep = <<>>,
                             !.ticks = 0]
    IN  initializeConcentrations(cleared, "background")

resetSimulation(w) ==
    LET p == pauseSimulation(w)
        empty(sp) == <<>>
        cleared == [p EXCEPT !.state.time = 0,
                             !.state.solarZenithAngle = 0,
                             !.timeSeriesData.time = <<>>,
                             !.timeSeriesData.concentrations =
                                 Object([name \in SPECIES |-> empty(name)]),
                             !.stepsTaken = 0,
                             !.sampleStep = <<>>,
                             !.ticks = 0]
    IN  initializeConcentrations(cleared, "background")

----------------------------------------------------------------------------
(* Initial state: the globals as declared, after initializeConcentrations *)

Declared ==
    [state |-> [concentrations |-> EmptyObject,
                time |-> 0,
                temperature |-> 298,
                pressure |-> 1000,
                solarZenithAngle |-> 0,
                isRunning |-> FALSE,
                diurnalCycle |-> TRUE,
                emissions |-> [CH4 |-> 10, CO |-> 5],
                noxLevel |-> 1000],
     timeSeriesData |-> [time |-> <<>>, concentrations |-> EmptyObject],
     animationFrameId |-> 0,
     lastUpdateTime |-> 0,
     pending |-> {},
     stepsTaken |-> 0,
     sampleStep |-> <<>>,
     ticks |-> 0]

Loaded == initializeConcentrations(Declared, "background")

\* no frame callback is inside its for loop
NoLoop == [i |-> 0, numSteps |-> 0]

Init ==
    /\ state = Loaded.state
    /\ timeSeriesData = Loaded.timeSeriesData
    /\ animationFrameId = Loaded.animationFrameId
    /\ lastUpdateTime = Loaded.lastUpdateTime
    /\ pending = Loaded.pending
    /\ stepsTaken = Loaded.stepsTaken
    /\ sampleStep = Loaded.sampleStep
    /\ ticks = Loaded.ticks
    /\ simSpeedFactor = 10
    /\ timeStepSize = 60
    /\ now = 0
    /\ download = <<>>
    /\ loop = NoLoop
    /\ inputs = 0

----------------------------------------------------------------------------
(* Events *)

Config == <<simSpeedFactor, timeStepSize>>

Start ==
    \E w \in {startSimulation(World, now, simSpeedFactor, timeStepSize)} :
        /\ w.ticks <= MaxTicks
        /\ Install(w)
        /\ UNCHANGED <<Config, now, download, loop, inputs>>

\* the host runs the frame callback it was asked for
Frame ==
    \E id \in pending :
        \E w \in {runSimulation([World EXCEPT !.pending = @ \ {id}],
                                now, simSpeedFactor, timeStepSize)} :
            /\ w.ticks <= MaxTicks
            /\ Install(w)
            /\ UNCHANGED <<Config, now, download, loop, inputs>>

Pause ==
    /\ Install(pauseSimulation(World))
    /\ UNCHANGED <<Config, now, download, loop, inputs>>

Reset ==
    /\ Install(resetSimulation(World))
    /\ UNCHANGED <<Config, now, download, loop, inputs>>

Input == inputs < MaxInputs /\ inputs' = inputs + 1

SetSimSpeed ==
    \E v \in SpeedFactors :
        /\ Input
        /\ simSpeedFactor' = v
        /\ UNCHANGED <<state, timeSeriesData, animationFrameId, lastUpdateTime,
                       timeStepSize, now, pending, download, loop, stepsTaken,
                       sampleStep, ticks>>

SetTimeStep ==
    \E v \in TimeSteps :
        /\ Input
        /\ timeStepSize' = v
        /\ UNCHANGED <<state, timeSeriesData, animationFrameId, lastUpdateTime,
                       simSpeedFactor, now, pending, download, loop, stepsTaken,
                       sampleStep, ticks>>

StateOnly ==
    UNCHANGED <<timeSeriesData, animationFrameId, lastUpdateTime, simSpeedFactor,
                timeStepSize, now, pending, download, loop, stepsTaken, sampleStep,
                ticks>>

SetTemperature ==
    \E v \in Temperatures :
        Input /\ state' = [state EXCEPT !.temperature = v] /\ StateOnly

SetPressure ==
    \E v \in Pressures :
        Input /\ state' = [state EXCEPT !.pressure = v] /\ StateOnly

\* if (!state.diurnalCycle) state.solarZenithAngle = v
setSolarZenith(st, v) ==
    IF ~st.diurnalCycle THEN [st EXCEPT !.solarZenithAngle = v] ELSE st

SetSolarZenith ==
    \E v \in ZenithAngles :
        Input /\ state' = setSolarZenith(state, v) /\ StateOnly

SetDiurnalCycle ==
    \E v \in BOOLEAN :
        Input /\ state' = [state EXCEPT !.diurnalCycle = v] /\ StateOnly

SetCh4Emission ==
    \E v \in EmissionRates :
        Input /\ state' = [state EXCEPT !.emissions.CH4 = v] /\ StateOnly

SetCoEmission ==
    \E v \in EmissionRates :
        Input /\ state' = [state EXCEPT !.emissions.CO = v] /\ StateOnly

\* the handler with the second assignment made to a key NOx
setNoxLevelOtherKey(st, v) ==
    [st EXCEPT !.noxLevel = v,
               !.concentrations =
                   Assign(Assign(@, "NO", Q(v * 5 * CScale, 10 * Milli)),
                          "NOx", Q(v * 5 * CScale, 10 * Milli))]

\* the handler with NO and NO2 set to noxLevel instead of noxLevel * 0.5
setNoxLevelWhole(st, v) ==
    [st EXCEPT !.noxLevel = v,
               !.concentrations =
                   Assign(Assign(@, "NO", Q(v * CScale, Milli)),
                          "NO2", Q(v * CScale, Milli))]

\* state.noxLevel = v, then NO and NO2 are set to noxLevel * 0.5
setNoxLevel(st, v) ==
    [st EXCEPT !.noxLevel = v,
               !.concentrations =
                   Assign(Assign(@, "NO", Q(v * 5 * CScale, 10 * Milli)),
                          "NO2", Q(v * 5 * CScale, 10 * Milli))]

SetNoxLevel ==
    \E v \in NoxLevels :
        Input /\ state' = setNoxLevel(state, v) /\ StateOnly

LoadPreset ==
    \E p \in PresetInputs :
        /\ Input
        /\ Install(initializeConcentrations(World, p))
        /\ UNCHANGED <<Config, now, download, loop>>

\* 'Time(hours)', then SPECIES[sp].name + '(ppb)' for every key of SPECIES (the
\* names with their subscripts written as digits)
csvHeader ==
    <<"Time(hours)">> \o [j \in 1..Len(SpeciesOrder) |-> SpeciesOrder[j] \o "(ppb)"]

\* A number printed with d decimals is the pair of the digits before the
\* point, as a number, and the d digits after it, as a number.
\* (t / 3600).toFixed(4): the multiple of 0.0001 nearest to t / 3600
\* (t * 10000 / 3600 = 25 t / 9 is never half-way between two)
toFixedHours(t) ==
    LET n == (50 * t + 9) \div 18
    IN  <<n \div 10000, n % 10000>>

\* x.toFixed(6) of a concentration
toFixedPpb(x) == <<x \div CScale, (x % CScale) * (1000000 \div CScale)>>

\* the row of sample i: the time, then one field for every key of SPECIES
csvRow(ts, i) ==
    LET field(j) == toFixedPpb(ts.concentrations[SpeciesOrder[j]][i])
    IN  <<toFixedHours(ts.time[i])>> \o [j \in 1..Len(SpeciesOrder) |-> field(j)]

\* the export with the samples taken out of the buffer as they are written
exportToCSVDraining(w) ==
    [world |-> [w EXCEPT !.timeSeriesData.time = <<>>],
     csv |-> <<csvHeader>> \o [i \in 1..Len(w.timeSeriesData.time) |->
                                  csvRow(w.timeSeriesData, i)]]

\* the text as its rows (a row ends with '\n') and their fields (separated by
\* ','), and the globals after the call
exportToCSV(w) ==
    [world |-> w,
     csv |-> <<csvHeader>> \o [i \in 1..Len(w.timeSeriesData.time) |->
                                  csvRow(w.timeSeriesData, i)]]

\* the export button; the file is handed to the host
ExportCSV ==
    \E r \in {exportToCSV(World)} :
        /\ Input
        /\ Install(r.world)
        /\ download' = r.csv
        /\ UNCHANGED <<Config, now, loop>>

\* wall-clock time passes between two events
Advance ==
    \E d \in Delays :
        /\ now + d <= MaxNow
        /\ now' = now + d
        /\ UNCHANGED <<state, timeSeriesData, animationFrameId, lastUpdateTime,
                       simSpeedFactor, timeStepSize, pending, download, loop,
                       stepsTaken, sampleStep, inputs, ticks>>

Next ==
    \/ Start
    \/ Frame
    \/ Pause
    \/ Reset
    \/ SetSimSpeed
    \/ SetTimeStep
    \/ SetTemperature
    \/ SetPressure
    \/ SetSolarZenith
    \/ SetDiurnalCycle
    \/ SetCh4Emission
    \/ SetCoEmission
    \/ SetNoxLevel
    \/ LoadPreset
    \/ ExportCSV
    \/ Advance

Spec == Init /\ [][Next]_vars

----------------------------------------------------------------------------
(* rk4Step on its own: the arguments are drawn from sets, the result of a    *)
(* call is the concentration vector of the next call                         *)

MaxRK4Steps == 2

\* a vector with exhausted species (entries equal to 0) and little methane
depleted ==
    [CH4 |-> 5000, CO |-> 0, CO2 |-> 0, OH |-> 0, HO2 |-> 0, O3 |-> 40000,
     NO |-> 0, NO2 |-> 500, CH3O2 |-> 0, CH2O |-> 0]

\* a vector without oxidants, nitrogen oxides and intermediates: no reaction
\* of the mechanism has both its reactants
inert ==
    [CH4 |-> 1800000, CO |-> 100000, CO2 |-> 400000000, OH |-> 0, HO2 |-> 0,
     O3 |-> 0, NO |-> 0, NO2 |-> 0, CH3O2 |-> 0, CH2O |-> 0]

Vectors == {presets[p] : p \in DOMAIN presets} \cup {depleted, inert}
StepSizes == {0 - 60, 60, 600}                      \* s
SolverTemperatures == {250, 298, 320}               \* K
SolverPressures == {500, 1000}                      \* hPa
SolverZenithAngles == {0, 60000, 90000, 120000}     \* 1/Milli degree
EmissionPairs ==
    {[CH4 |-> 10, CO |-> 5], [CH4 |-> 0, CO |-> 0], [CH4 |-> 0 - 2000, CO |-> 0]}

InitRK4 ==
    /\ \E c \in Vectors, T \in SolverTemperatures, P \in SolverPressures,
          sza \in SolverZenithAngles, e \in EmissionPairs :
            state = [Loaded.state EXCEPT !.concentrations = c,
                                         !.temperature = T,
                                         !.pressure = P,
                                         !.solarZenithAngle = sza,
                                         !.emissions = e]
    /\ timeSeriesData = Loaded.timeSeriesData
    /\ animationFrameId = 0
    /\ lastUpdateTime = 0
    /\ pending = {}
    /\ stepsTaken = 0
    /\ sampleStep = <<>>
    /\ ticks = 0
    /\ simSpeedFactor = 10
    /\ timeStepSize = 60
    /\ now = 0
    /\ download = <<>>
    /\ loop = NoLoop
    /\ inputs = 0

CallRk4Step ==
    \E dt \in StepSizes :
        /\ stepsTaken < MaxRK4Steps
        /\ state' = [state EXCEPT !.concentrations =
                         rk4Step(state.concentrations, dt, state.temperature,
                                 state.pressure, state.solarZenithAngle,
                                 state.emissions)]
        /\ stepsTaken' = stepsTaken + 1
        /\ UNCHANGED <<timeSeriesData, animationFrameId, lastUpdateTime,
                       simSpeedFactor, timeStepSize, now, pending, download, loop,
                       sampleStep, ticks, inputs>>

NextRK4 == CallRk4Step

SpecRK4 == InitRK4 /\ [][NextRK4]_vars

----------------------------------------------------------------------------
(* The frame callback step by step: the for loop of runSimulation with one  *)
(* action per iteration.  The callback runs to completion: no handler and   *)
(* no other callback runs between two of its iterations.                     *)

MaxLoopTicks == 2       \* runs of the callback explored
MaxLoopSteps == 130     \* calls of stepSimulation explored

\* what Date.now() may return (ms); the host may set its clock back
TickNows == {0, 16, 1000, 60000}
\* the ends and the default of the two sliders: 0.1x - 10x, 10 - 600 s
TickSpeedFactors == {1, 10, 100}
TickTimeSteps == {10, 60, 600}

InitTick ==
    /\ state = Loaded.state
    /\ timeSeriesData = Loaded.timeSeriesData
    /\ animationFrameId = Loaded.animationFrameId
    /\ lastUpdateTime = Loaded.lastUpdateTime
    /\ pending = Loaded.pending
    /\ stepsTaken = Loaded.stepsTaken
    /\ sampleStep = Loaded.sampleStep
    /\ ticks = Loaded.ticks
    /\ simSpeedFactor \in TickSpeedFactors
    /\ timeStepSize \in TickTimeSteps
    /\ now = 0
    /\ download = <<>>
    /\ loop = NoLoop
    /\ inputs = 0

\* let i = 0 and const numSteps = ...
enterLoop(currentTime, anchor, speed, dt) ==
    [i |-> 0, numSteps |-> NumSteps(Elapsed(currentTime, anchor, speed), dt)]

\* i < numSteps
loopTest(l) == l.i < l.numSteps

\* the loop counter left as it is
loopIncrementNone(i) == i

\* i++
loopIncrement(i) == i + 1

\* startSimulation up to the for loop of the runSimulation it calls
ClickRun ==
    /\ loop = NoLoop
    /\ ~state.isRunning
    /\ ticks < MaxLoopTicks
    /\ state' = [state EXCEPT !.isRunning = TRUE]
    /\ lastUpdateTime' = now
    /\ loop' = enterLoop(now, now, simSpeedFactor, timeStepSize)
    /\ UNCHANGED <<timeSeriesData, animationFrameId, simSpeedFactor, timeStepSize,
                   now, pending, download, stepsTaken, sampleStep, ticks, inputs>>

\* the host runs the frame callback it was asked for: runSimulation up to
\* its for loop
FrameBegin ==
    /\ loop = NoLoop
    /\ state.isRunning
    /\ ticks < MaxLoopTicks
    /\ \E id \in pending : pending' = pending \ {id}
    /\ lastUpdateTime' = now
    /\ loop' = enterLoop(now, lastUpdateTime, simSpeedFactor, timeStepSize)
    /\ UNCHANGED <<state, timeSeriesData, animationFrameId, simSpeedFactor,
                   timeStepSize, now, download, stepsTaken, sampleStep, ticks,
                   inputs>>

\* the counter's part of one iteration: i < numSteps holds, and i++
nextIteration ==
    /\ loop # NoLoop
    /\ loopTest(loop)
    /\ stepsTaken < MaxLoopSteps
    /\ loop' = [loop EXCEPT !.i = loopIncrement(@)]

\* one iteration: stepSimulation(timeStepSize); i++
LoopStep ==
    /\ nextIteration
    /\ \E w \in {stepSimulation(World, timeStepSize)} : Install(w)
    /\ UNCHANGED <<Config, now, download, inputs>>

\* the loop is left: animationFrameId = requestAnimationFrame(runSimulation)
LoopEnd ==
    /\ loop # NoLoop
    /\ ~loopTest(loop)
    /\ \E id \in {NewFrameId(pending)} :
          /\ animationFrameId' = id
          /\ pending' = pending \cup {id}
    /\ ticks' = ticks + 1
    /\ loop' = NoLoop
    /\ UNCHANGED <<state, timeSeriesData, lastUpdateTime, simSpeedFactor,
                   timeStepSize, now, download, stepsTaken, sampleStep, inputs>>

\* the wall clock between two callbacks
Wait ==
    /\ loop = NoLoop
    /\ \E t \in TickNows : now' = t
    /\ UNCHANGED <<state, timeSeriesData, animationFrameId, lastUpdateTime,
                   simSpeedFactor, timeStepSize, pending, download, loop,
                   stepsTaken, sampleStep, inputs, ticks>>

NextTick ==
    \/ ClickRun
    \/ FrameBegin
    \/ LoopStep
    \/ LoopEnd
    \/ Wait

\* a callback that has begun goes on until it returns: inside the loop the
\* next iteration follows (every step of LoopStep is one of nextIteration, and
\* nothing else moves the counter), after it the frame request
SpecTick ==
    InitTick /\ [][NextTick]_vars /\ WF_loop(nextIteration) /\ WF_vars(LoopEnd)

----------------------------------------------------------------------------
(* stepSimulation in the course of long runs: the state is one that steps   *)
(* have brought to a simulated time of hours or days, with a preset loaded  *)
(* since                                                                     *)

MaxDiurnalSteps == 2

\* simulated times (s) around midnight, noon and the hours in between, each a
\* multiple of the smallest step size
TimesOfDay ==
    {3600, 6 * 3600, 12 * 3600 - 600, 12 * 3600, 18 * 3600, 24 * 3600 - 1200,
     24 * 3600 - 600, 24 * 3600 - 60, 24 * 3600 - 10, 24 * 3600, 36 * 3600,
     48 * 3600 - 600, 48 * 3600}
StepsOfDay == {10, 60, 600}

InitDiurnal ==
    /\ \E t \in TimesOfDay, p \in PresetInputs, on \in BOOLEAN :
          state = [updateDiurnalCycle([Loaded.state EXCEPT !.time = t])
                       EXCEPT !.concentrations = presets[p],
                              !.diurnalCycle = on]
    /\ timeSeriesData = Loaded.timeSeriesData
    /\ animationFrameId = 0
    /\ lastUpdateTime = 0
    /\ pending = {}
    /\ stepsTaken = 0
    /\ sampleStep = <<>>
    /\ ticks = 0
    /\ simSpeedFactor = 10
    /\ timeStepSize \in StepsOfDay
    /\ now = 0
    /\ download = <<>>
    /\ loop = NoLoop
    /\ inputs = 0

CallStepSimulation ==
    /\ stepsTaken < MaxDiurnalSteps
    /\ \E w \in {stepSimulation(World, timeStepSize)} : Install(w)
    /\ UNCHANGED <<Config, now, download, loop, inputs>>

NextDiurnal == CallStepSimulation

SpecDiurnal == InitDiurnal /\ [][NextDiurnal]_vars

----------------------------------------------------------------------------
(* Properties *)

\* C1: rk4Step applied to a vector of non-negative entries returns a vector of
\* non-negative entries, for every step size (negative ones included),
\* temperature, pressure, zenith angle and emission pair drawn; so after any
\* sequence of calls no concentration is negative.
C1_NonNegative ==
    \A sp \in DOMAIN state.concentrations : state.concentrations[sp] >= 0

\* a call has driven methane below zero and the result holds 0 for it
C1_Witness ==
    /\ stepsTaken >= 1
    /\ state.concentrations["CH4"] = 0
    /\ state.emissions.CH4 < 0

\* C2: in every reachable state the concentration vector has exactly the ten
\* species keys; no start, tick, pause, reset, preset load or parameter update
\* removes or adds one.
C2_TenKeys ==
    /\ DOMAIN state.concentrations = SPECIES
    /\ Cardinality(SPECIES) = 10

\* ticks have integrated, and a preset has been loaded or a parameter updated
C2_Witness ==
    /\ stepsTaken >= 2
    /\ inputs >= 1
    /\ state.concentrations # presets["background"]
    /\ DOMAIN state.concentrations = SPECIES

\* C3: reset, from any reachable state, leaves the clock stopped, simulated
\* time 0, the zenith angle 0, the time array and every per-species array of
\* the buffer empty, and every concentration at its background preset value.
C3_ResetRestores ==
    \E w \in {resetSimulation(World)} :
        /\ ~w.state.isRunning
        /\ w.state.time = 0
        /\ w.state.solarZenithAngle = 0
        /\ Len(w.timeSeriesData.time) = 0
        /\ \A sp \in SPECIES :
              /\ Len(w.timeSeriesData.concentrations[sp]) = 0
              /\ w.state.concentrations[sp] = presets["background"][sp]

\* reset of a running simulation that has recorded samples and whose
\* concentrations have left the background values
C3_Witness ==
    /\ state.isRunning
    /\ Len(timeSeriesData.time) >= 2
    /\ state.concentrations # presets["background"]
    /\ state.solarZenithAngle # 0
    /\ resetSimulation(World).state.concentrations = presets["background"]
    /\ resetSimulation(World).timeSeriesData.time = <<>>

\* C4: while the clock is stopped no integration step occurs. A transition
\* from a stopped state other than start and reset leaves simulated time, the
\* buffer and the number of steps taken unchanged, and the tick callback run
\* in a stopped state returns at once: it changes nothing and requests no
\* further frame.
C4_StoppedIsFrozen ==
    /\ [](~state.isRunning =>
            runSimulation(World, now, simSpeedFactor, timeStepSize) = World)
    /\ [][(~state.isRunning /\ ~Start /\ ~Reset) =>
            /\ state'.time = state.time
            /\ timeSeriesData' = timeSeriesData
            /\ stepsTaken' = stepsTaken
            /\ ~state'.isRunning]_vars

\* paused after a run, with wall-clock time gone by since the last tick
C4_Witness ==
    /\ ~state.isRunning
    /\ stepsTaken >= 2
    /\ now > lastUpdateTime
    /\ pending = {}

\* C5: start moves a stopped clock to running and records the current
\* wall-clock time as the anchor; start on a running clock changes nothing
\* (state, anchor, requested frames), and never more than one frame request
\* is outstanding.
C5_Start ==
    /\ Cardinality(pending) <= 1
    /\ \E w \in {startSimulation(World, now, simSpeedFactor, timeStepSize)} :
          IF state.isRunning
          THEN w = World
          ELSE /\ w.state.isRunning
               /\ w.lastUpdateTime = now
               /\ Cardinality(w.pending) = 1

\* a clock started at a wall-clock time after load, and since then running
\* with time elapsed, where a second start would find steps to take
C5_Witness ==
    /\ state.isRunning
    /\ lastUpdateTime > 0
    /\ now > lastUpdateTime
    /\ Cardinality(pending) = 1

\* the state after n successive steps of size dt, each one rk4Step on the
\* concentrations the previous one returned, the zenith angle following the
\* diurnal model in between (n steps are n \div 2 steps and then the rest)
RECURSIVE C6_Steps(_, _, _)
C6_Steps(st, n, dt) ==
    IF n = 0 THEN st
    ELSE IF n = 1 THEN advance(st, dt)
    ELSE CHOOSE last \in {C6_Steps(mid, n - n \div 2, dt) :
                             mid \in {C6_Steps(st, n \div 2, dt)}} : TRUE

\* C6: a tick of a running clock takes exactly N = max(1, floor(e / dt)) steps,
\* e = (now - anchor) / 1000 * speed; each is rk4Step with step size dt on the
\* result of the previous one; simulated time grows by N * dt and the anchor
\* becomes now, the remainder e - N * dt being dropped.
C6_Tick ==
    state.isRunning =>
        \E w \in {runSimulation(World, now, simSpeedFactor, timeStepSize)} :
            \E e \in {((now - lastUpdateTime) * simSpeedFactor) \div SpeedScale} :
                \E N \in {IF e \div (timeStepSize * Milli) >= 1
                          THEN e \div (timeStepSize * Milli) ELSE 1} :
                    /\ w.stepsTaken = stepsTaken + N
                    /\ w.state.time = state.time + N * timeStepSize
                    /\ w.lastUpdateTime = now
                    /\ w.state = C6_Steps(state, N, timeStepSize)

\* a running clock whose anchor is a past tick, with elapsed time worth at
\* least two steps and a remainder
C6_Witness ==
    /\ state.isRunning
    /\ lastUpdateTime > 0
    /\ stepsTaken >= 2
    /\ Elapsed(now, lastUpdateTime, simSpeedFactor) >= 2 * timeStepSize * Milli
    /\ Elapsed(now, lastUpdateTime, simSpeedFactor) % (timeStepSize * Milli) # 0

\* C7: a step of size dt appends the sample (new time, new concentrations)
\* if and only if the buffer is empty or the new time minus the time of the
\* last sample is at least 10 * dt; otherwise it leaves the buffer unchanged.
C7_SampleRule ==
    \E w \in {stepSimulation(World, timeStepSize)} :
        LET n == Len(timeSeriesData.time)
            due == \/ n = 0
                   \/ (state.time + timeStepSize) - timeSeriesData.time[n]
                          >= 10 * timeStepSize
        IN  IF due
            THEN /\ w.timeSeriesData.time =
                        Append(timeSeriesData.time, state.time + timeStepSize)
                 /\ \A sp \in SPECIES :
                        w.timeSeriesData.concentrations[sp] =
                            Append(timeSeriesData.concentrations[sp],
                                   w.state.concentrations[sp])
            ELSE w.timeSeriesData = timeSeriesData

\* a buffer with a sample in it, and a step that falls due by the rule
C7_Witness ==
    /\ Len(timeSeriesData.time) >= 1
    /\ (state.time + timeStepSize) - timeSeriesData.time[Len(timeSeriesData.time)]
           >= 10 * timeStepSize
    /\ Len(stepSimulation(World, timeStepSize).timeSeriesData.time)
           = Len(timeSeriesData.time) + 1

\* C8: since the last reset, any two consecutive samples of the buffer are at
\* least ten integration steps apart, whatever the ticks and the changes of the
\* step size in between.
C8_TenStepsApart ==
    \A i \in 1..(Len(sampleStep) - 1) : sampleStep[i + 1] - sampleStep[i] >= 10

\* C9: the sample times of the buffer increase strictly in buffer order and
\* the last one is not after the current simulated time.
C9_TimesIncrease ==
    LET t == timeSeriesData.time
    IN  /\ \A i \in 1..(Len(t) - 1) : t[i] < t[i + 1]
        /\ Len(t) >= 1 => t[Len(t)] <= state.time

\* several samples, the last one older than the current simulated time
C9_Witness ==
    /\ Len(timeSeriesData.time) >= 2
    /\ timeSeriesData.time[Len(timeSeriesData.time)] < state.time

\* s is a prefix of t
C10_IsPrefix(s, t) == Len(s) <= Len(t) /\ SubSeq(t, 1, Len(s)) = s

\* C10: across every operation other than reset, the buffer before it is a
\* prefix of the buffer after it, for the time array and for the array of
\* every species; only reset shortens the buffer.
C10_AppendOnly ==
    [][~Reset =>
         /\ C10_IsPrefix(timeSeriesData.time, timeSeriesData'.time)
         /\ DOMAIN timeSeriesData'.concentrations = DOMAIN timeSeriesData.concentrations
         /\ \A sp \in DOMAIN timeSeriesData.concentrations :
                C10_IsPrefix(timeSeriesData.concentrations[sp],
                             timeSeriesData'.concentrations[sp])]_vars

\* samples recorded, then the clock paused, with a preset load or a parameter
\* update made along the way
C10_Witness ==
    /\ Len(timeSeriesData.time) >= 2
    /\ inputs >= 1
    /\ ~state.isRunning
    /\ \A sp \in SPECIES :
          Len(timeSeriesData.concentrations[sp]) = Len(timeSeriesData.time)

\* a transition that takes no integration step and is neither a preset load
\* nor reset
C11_OtherOperation == stepsTaken' = stepsTaken /\ ~Reset /\ ~LoadPreset

\* C11 (as stated): every operation other than an integration step, a preset
\* load and reset leaves all ten concentrations unchanged; pause and every
\* parameter update, the NOx level among them, are such operations.
C11_OnlyStepsPresetReset ==
    [][C11_OtherOperation => state'.concentrations = state.concentrations]_vars

\* C11 (amended): every operation other than an integration step, a preset
\* load, reset and the NOx level update leaves all ten concentrations
\* unchanged; the NOx level update sets NO and NO2 to half the new level and
\* leaves the other eight unchanged.
C11_ConcentrationWriters ==
    [][C11_OtherOperation =>
         IF SetNoxLevel
         THEN /\ state'.concentrations["NO"] = Q(state'.noxLevel * CScale, 2 * Milli)
              /\ state'.concentrations["NO2"] = Q(state'.noxLevel * CScale, 2 * Milli)
              /\ \A sp \in SPECIES \ {"NO", "NO2"} :
                     state'.concentrations[sp] = state.concentrations[sp]
         ELSE state'.concentrations = state.concentrations]_vars

\* the NOx level has been updated after integration steps: NO and NO2 hold
\* half the level, the other species the values the steps left
C11_Witness ==
    /\ stepsTaken >= 2
    /\ state.noxLevel # Loaded.state.noxLevel
    /\ state.concentrations["NO"] = Q(state.noxLevel * CScale, 2 * Milli)
    /\ state.concentrations["NO2"] = Q(state.noxLevel * CScale, 2 * Milli)
    /\ state.concentrations["CH4"] # presets["background"]["CH4"]

\* the zenith angle of the diurnal model at simulated time t:
\* min(90, |12 - h| * 7.5), h = (t / 3600) mod 24
C12_DiurnalAngle(t) ==
    Min(90 * Milli, Q(Abs(12 * 3600 - (t % (24 * 3600))) * 7500, 3600))

\* C12: every step taken with the diurnal toggle on is evaluated with the
\* zenith angle the diurnal model gives for the simulated time at which the
\* step starts: this holds of each of the steps of a tick, the first step after
\* load, after reset and after the toggle was switched on included.
C12_StepsUseDiurnalAngle ==
    [][(stepsTaken' > stepsTaken /\ state.diurnalCycle) =>
         \A i \in 0..(stepsTaken' - stepsTaken - 1) :
             \E st \in {C6_Steps(state, i, timeStepSize)} :
                 st.solarZenithAngle = C12_DiurnalAngle(st.time)]_vars

\* C13: the zenith angle has one writer at a time. With the diurnal toggle
\* off a step leaves the angle unchanged and the setter stores the value
\* supplied; with the toggle on the setter changes nothing, and a transition
\* that changes the angle is a tick taking steps, or reset.
C13_SingleWriter ==
    /\ [](IF state.diurnalCycle
          THEN \A v \in ZenithAngles \cup {0, 45 * Milli} :
                   setSolarZenith(state, v) = state
          ELSE /\ stepSimulation(World, timeStepSize).state.solarZenithAngle
                      = state.solarZenithAngle
               /\ \A v \in ZenithAngles \cup {0, 45 * Milli} :
                      setSolarZenith(state, v)
                          = [state EXCEPT !.solarZenithAngle = v])
    /\ [][/\ (~state.diurnalCycle /\ stepsTaken' > stepsTaken) =>
                 state'.solarZenithAngle = state.solarZenithAngle
          /\ (state.diurnalCycle
                /\ state'.solarZenithAngle # state.solarZenithAngle) =>
                 (stepsTaken' > stepsTaken \/ Reset)]_vars

\* the toggle was switched off in the course of a run and steps were taken
\* since: the angle is the one stored at that moment, no longer the one the
\* diurnal model gives for the simulated time, and the setter would replace it
C13_Witness ==
    /\ ~state.diurnalCycle
    /\ state.isRunning
    /\ stepsTaken >= 2
    /\ state.solarZenithAngle # 0
    /\ state.solarZenithAngle # C12_DiurnalAngle(state.time)
    /\ \E v \in ZenithAngles :
          setSolarZenith(state, v).solarZenithAngle # state.solarZenithAngle

\* the table k with the three photolysis entries removed
C14_NoPhotolysis(k) ==
    [k EXCEPT !.CH2O_photolysis = 0, !.NO2_photolysis = 0, !.O3_photolysis = 0]

\* C14: for every zenith angle of 90 degrees or more the rate constants
\* CH2O_photolysis, NO2_photolysis and O3_photolysis are exactly 0, and for
\* every concentration vector the derivative of every species is the one
\* computed with the photolysis terms removed.
C14_NightPhotolysisZero ==
    state.solarZenithAngle >= 90 * Milli =>
        /\ \A rxn \in {"CH2O_photolysis", "NO2_photolysis", "O3_photolysis"} :
              /\ photolysisIsZero(rxn, state.solarZenithAngle)
              /\ getRateConstant(rxn, state.temperature, state.pressure,
                                 state.solarZenithAngle) = 0
        /\ \E k \in {rateConstants(state.temperature, state.pressure,
                                   state.solarZenithAngle)} :
              derivatives(state.concentrations, k)
                  = derivatives(state.concentrations, C14_NoPhotolysis(k))

\* identifiers handed to the two lookups: the names of both tables, names of
\* neither (a name in the wrong case, the empty name) and names that every
\* object inherits
C15_Identifiers ==
    ReactionNames \cup PhotolysisNames
        \cup {"", "unknown", "ch4_oh", "CH4_OH ", "constructor", "toString", "__proto__"}

\* C15: getRateConstant returns the number 0 for every identifier that is not
\* one of the fifteen reaction names, at every temperature, pressure and zenith
\* angle, and calculateJValue returns the number 0 for every identifier that is
\* not one of its three photolysis names.
C15_UnknownIsZero ==
    /\ \A name \in C15_Identifiers \ ReactionNames :
          /\ getRateConstantIsNumber(name)
          /\ getRateConstant(name, state.temperature, state.pressure,
                             state.solarZenithAngle) = 0
    /\ \A name \in C15_Identifiers \ PhotolysisNames :
          /\ ~calculateJValueIsNaN(name)
          /\ calculateJValue(name, state.solarZenithAngle) = 0

\* the objects that exist when stepSimulation calls rk4Step: the concentration
\* vector at reference 1, the emissions pair at reference 2, the state object
\* (time and environment parameters) at reference 3, the buffer at reference 4
C17_Heap == <<state.concentrations, state.emissions, state, timeSeriesData>>

\* C17: a call of rk4Step leaves the concentration vector and the emissions
\* pair it is handed, the state object and the buffer as they were and
\* returns a new object, which holds the result of the step; calculateRates
\* leaves its input vector as it was and returns a new object.
C17_NoSideEffects ==
    \A dt \in StepSizes :
        /\ \E r \in {rk4StepHeap(C17_Heap, 1, dt, state.temperature,
                                 state.pressure, state.solarZenithAngle, 2)} :
              /\ r.ref \notin DOMAIN C17_Heap
              /\ r.ref \in DOMAIN r.heap
              /\ \A o \in DOMAIN C17_Heap : r.heap[o] = C17_Heap[o]
              /\ r.heap[r.ref] = rk4Step(state.concentrations, dt,
                                         state.temperature, state.pressure,
                                         state.solarZenithAngle, state.emissions)
        /\ \E h \in {calculateRatesHeap(C17_Heap, 1,
                         rateConstants(state.temperature, state.pressure,
                                       state.solarZenithAngle))} :
              /\ Len(h) = Len(C17_Heap) + 1
              /\ \A o \in DOMAIN C17_Heap : h[o] = C17_Heap[o]

\* a vector that steps have produced and that a further step changes, with
\* emissions to add
C17_Witness ==
    /\ stepsTaken >= 1
    /\ state.emissions.CH4 # 0
    /\ \E dt \in StepSizes :
          \E r \in {rk4StepHeap(C17_Heap, 1, dt, state.temperature, state.pressure,
                                state.solarZenithAngle, 2)} :
              r.heap[r.ref] # state.concentrations

\* the species whose absence stops every reaction of the mechanism
C18_Reactive == {"OH", "HO2", "O3", "NO", "NO2", "CH3O2", "CH2O"}

\* dt * E / 86400 in the unit of the concentrations, E in ppb/day
C18_Emitted(dt, E) == Q(dt * Q(E * CScale * Milli, 86400), Milli)

C19_Proxy(c) == c["CH4"] + c["CO"] + c["CO2"]

\* the background preset, no emissions, an admissible zenith angle
C19_Start ==
    /\ state.concentrations = presets["background"]
    /\ state.emissions = [CH4 |-> 0, CO |-> 0]
    /\ state.solarZenithAngle \in 0..(90 * Milli)

C20_MethaneOxidised ==
    (/\ state.concentrations = presets["background"]
     /\ state.temperature = 298
     /\ state.pressure = 1000
     /\ state.solarZenithAngle = 0
     /\ state.emissions = [CH4 |-> 0, CO |-> 0]) =>
        \E cNew \in {rk4Step(state.concentrations, 60, state.temperature,
                             state.pressure, state.solarZenithAngle,
                             state.emissions)} :
            /\ cNew["CH4"] < 1800 * CScale
            /\ cNew["CH3O2"] > CScale \div 100

\* the scenario of the claim: the vector is the preset's, with CH4 = 1800 and
\* CH3O2 = 0.01, and the step changes it
C20_Witness ==
    /\ state.concentrations = presets["background"]
    /\ state.concentrations["CH4"] = 1800 * CScale
    /\ state.concentrations["CH3O2"] = CScale \div 100
    /\ state.temperature = 298
    /\ state.pressure = 1000
    /\ state.solarZenithAngle = 0
    /\ state.emissions = [CH4 |-> 0, CO |-> 0]
    /\ 60 \in StepSizes
    /\ rk4Step(state.concentrations, 60, state.temperature, state.pressure,
               state.solarZenithAngle, state.emissions) # state.concentrations

\* names handed to initializeConcentrations: the three presets, names of no
\* preset and names that every object inherits
C21_Names ==
    DOMAIN presets \cup {"", "urban", "Background", "constructor", "toString"}

\* C21: loading a preset sets each of the ten concentrations to the value the
\* table lists for that preset, whatever the simulation had computed; a name
\* that is none of the three loads the background values.
C21_PresetLoad ==
    \A name \in C21_Names :
        /\ initialValuesDefined(name)
        /\ \E w \in {initializeConcentrations(World, name)} :
              \A sp \in SPECIES :
                  w.state.concentrations[sp] =
                      IF name \in {"background", "polluted", "clean"}
                      THEN presets[name][sp]
                      ELSE presets["background"][sp]

\* C22: every run of the frame callback that has entered its loop leaves it:
\* the loop takes numSteps = max(1, floor(elapsed / dt)) iterations, a finite
\* number for every reading of the wall clock (one before the anchor
\* included), every speed multiplier and every step size of the slider, and
\* then a frame is requested and the callback returns.
C22_TickTerminates ==
    /\ [](loop # NoLoop =>
            /\ loop.numSteps >= 1
            /\ loop.i <= loop.numSteps
            /\ timeStepSize > 0)
    /\ (loop # NoLoop) ~> (loop = NoLoop)

\* a callback in the middle of a loop of many iterations, entered after a
\* minute of wall-clock time at ten times the speed
C22_Witness ==
    /\ loop # NoLoop
    /\ ticks = 1
    /\ loop.numSteps >= 60
    /\ loop.i >= 2
    /\ loop.i < loop.numSteps

\* csv holds a header row and then one row for every sample of the buffer ts,
\* in buffer order; a row holds the sample time in hours to four decimals and
\* then the ten concentrations to six decimals, in the order in which SPECIES
\* declares the species
C23_Rows(csv, ts) ==
    /\ Len(csv) = 1 + Len(ts.time)
    /\ Len(csv[1]) = 11
    /\ csv[1][1] = "Time(hours)"
    /\ \A j \in 1..10 : csv[1][j + 1] = SpeciesOrder[j] \o "(ppb)"
    /\ \A i \in 1..Len(ts.time) :
          /\ Len(csv[i + 1]) = 11
          /\ Abs((csv[i + 1][1][1] * 10000 + csv[i + 1][1][2]) * 3600
                     - ts.time[i] * 10000) <= 1800
          /\ csv[i + 1][1][2] \in 0..9999
          /\ \A j \in 1..10 :
                /\ csv[i + 1][j + 1][2] \in 0..999999
                /\ csv[i + 1][j + 1][2] % (1000000 \div CScale) = 0
                /\ csv[i + 1][j + 1][1] * CScale
                        + (csv[i + 1][j + 1][2] \div (1000000 \div CScale))
                    = ts.concentrations[SpeciesOrder[j]][i]

\* C23: the CSV export leaves the concentrations, the simulated time, the
\* zenith angle, the running flag and every other field of the state, the
\* buffer, the frame request and the clock configuration unchanged, and the
\* file it produces holds a header row followed by one row per sample of the
\* buffer, in buffer order, each with the sample time in hours and the ten
\* concentrations in declaration order.
C23_ExportIsPure ==
    [][ExportCSV =>
         /\ state' = state
         /\ timeSeriesData' = timeSeriesData
         /\ animationFrameId' = animationFrameId
         /\ lastUpdateTime' = lastUpdateTime
         /\ pending' = pending
         /\ Config' = Config
         /\ C23_Rows(download', timeSeriesData)]_vars

\* a file exported in the course of a run, with the header and two samples
\* or more, the first one taken at 60 s (0.0167 h)
C23_Witness ==
    /\ download # <<>>
    /\ Len(download) >= 3
    /\ download[2][1] = <<0, 167>>
    /\ download[2][2] # <<1800, 0>>
    /\ state.isRunning
    /\ Len(timeSeriesData.time) + 1 >= Len(download)

\* C24: in every reachable state at most one frame callback is requested and
\* not yet run or cancelled, and it is the one whose id is stored; while the
\* clock is stopped none is requested, and the stored id is null exactly
\* then. So no order of start, pause, reset and callbacks leaves two chains
\* of callbacks stepping the state.
C24_OneChain ==
    /\ Cardinality(pending) <= 1
    /\ ~state.isRunning => pending = {}
    /\ animationFrameId = 0 <=> ~state.isRunning
    /\ pending = IF animationFrameId = 0 THEN {} ELSE {animationFrameId}

\* a running clock after several callbacks, with its one request outstanding,
\* where pause followed at once by start again leaves one request
C24_Witness ==
    /\ state.isRunning
    /\ ticks >= 2
    /\ Cardinality(pending) = 1
    /\ \E w \in {startSimulation(pauseSimulation(World), now, simSpeedFactor,
                                 timeStepSize)} :
          /\ w.ticks <= MaxTicks
          /\ w.state.isRunning
          /\ Cardinality(w.pending) = 1
          /\ w.pending = {w.animationFrameId}

\* C25: start on a stopped clock runs one tick before it returns: with no
\* wall-clock time gone by since the anchor it has set, the tick takes one
\* step, so when start returns simulated time has grown by dt and the
\* concentrations are those rk4Step returns for this dt. Pause leaves
\* simulated time as it is, so n pairs of start and pause in a row make
\* simulated time grow by n * dt at least.
C25_StartSteps ==
    [][/\ (~state.isRunning /\ state'.isRunning) =>
              /\ ticks' = ticks + 1
              /\ stepsTaken' = stepsTaken + 1
              /\ lastUpdateTime' = now
              /\ state'.time >= state.time + timeStepSize
              /\ state'.concentrations =
                     rk4Step(state.concentrations, timeStepSize, state.temperature,
                             state.pressure, state.solarZenithAngle, state.emissions)
       /\ (state.isRunning /\ ~state'.isRunning /\ ~Reset) =>
              /\ state'.time = state.time
              /\ state'.concentrations = state.concentrations]_vars

\* a clock stopped in the course of a run, at the wall-clock time of its
\* anchor, where a further start changes the concentrations
C25_Witness ==
    /\ ~state.isRunning
    /\ stepsTaken >= 2
    /\ now = lastUpdateTime
    /\ now > 0
    /\ startSimulation(World, now, simSpeedFactor, timeStepSize).state.concentrations
           # state.concentrations

\* |12 - hours| * 7.5 at simulated time t, before the minimum with 90 is
\* taken, in 1/Milli degree
C26_Uncapped(t) == Q(Abs(12 * 3600 - (t % (24 * 3600))) * 7500, 3600)

C27_Carbon == {"CH4", "CH3O2", "CH2O", "CO", "CO2"}

\* the sum of a vector's entries for the carbon species
C27_Sum(f) == f["CH4"] + f["CH3O2"] + f["CH2O"] + f["CO"] + f["CO2"]

\* the result of one step with the final Math.max(0, .) left out
C27_StepUnclamped(c, dt, emissions, k) ==
    LET k1 == addEmissions(derivatives(c, k), emissions)
        k2 == addEmissions(derivatives(stage(c, dt, 2, k1), k), emissions)
        k3 == addEmissions(derivatives(stage(c, dt, 2, k2), k), emissions)
        k4 == addEmissions(derivatives(stage(c, dt, 1, k3), k), emissions)
    IN  combineUnclamped(c, dt, k1, k2, k3, k4)

\* the final clamp of a step from the state's vector changes no carbon species
C27_NoClamp(dt, cNew) ==
    \E k \in {rateConstants(state.temperature, state.pressure,
                            state.solarZenithAngle)} :
        \E u \in {C27_StepUnclamped(state.concentrations, dt, state.emissions, k)} :
            \A sp \in C27_Carbon : u[sp] = cNew[sp]

\* dt * (E_CH4 + E_CO) / 86400 in the unit of the concentrations
C27_Emitted(dt) ==
    Q(dt * (Q(state.emissions.CH4 * CScale * Milli, 86400)
            + Q(state.emissions.CO * CScale * Milli, 86400)), Milli)

\* the derivatives of the carbon species sum to zero at the state's vector
C27_DerivativesCancel ==
    C27_Sum(calculateRates(state.concentrations, state.temperature,
                           state.pressure, state.solarZenithAngle)) = 0

\* C27 (as stated): the derivatives that calculateRates returns for CH4,
\* CH3O2, CH2O, CO and CO2 sum to exactly zero, and a step in which no clamp
\* is active changes CH4 + CH3O2 + CH2O + CO + CO2 by exactly
\* dt * (E_CH4 + E_CO) / 86400.
C27_CarbonExact ==
    /\ C27_DerivativesCancel
    /\ \A dt \in {d \in StepSizes : d > 0} :
           \E cNew \in {rk4Step(state.concentrations, dt, state.temperature,
                                state.pressure, state.solarZenithAngle,
                                state.emissions)} :
               C27_NoClamp(dt, cNew) =>
                   C27_Sum(cNew) - C27_Sum(state.concentrations) = C27_Emitted(dt)

\* C27 (amended): every reaction rate of the carbon chain enters the
\* derivatives of CH4, CH3O2, CH2O, CO and CO2 once with each sign, so that
\* their sum has no term left, and a step in which no clamp is active changes
\* CH4 + CH3O2 + CH2O + CO + CO2 by dt * (E_CH4 + E_CO) / 86400 up to the
\* rounding of the five increments, less than one unit of the last place each.
C27_CarbonConserved ==
    /\ C27_DerivativesCancel
    /\ \A dt \in {d \in StepSizes : d > 0} :
           \E cNew \in {rk4Step(state.concentrations, dt, state.temperature,
                                state.pressure, state.solarZenithAngle,
                                state.emissions)} :
               C27_NoClamp(dt, cNew) =>
                   Abs(C27_Sum(cNew) - C27_Sum(state.concentrations)
                           - C27_Emitted(dt)) <= Cardinality(C27_Carbon)

\* a vector that steps have produced, with every carbon reaction running and
\* emissions to add, that a further step changes without clamping
C27_Witness ==
    /\ stepsTaken >= 1
    /\ state.emissions.CH4 > 0
    /\ state.emissions.CO > 0
    /\ \E d \in {calculateRates(state.concentrations, state.temperature,
                                state.pressure, state.solarZenithAngle)} :
           /\ d["CH4"] < 0
           /\ d["CO2"] > 0
           /\ d["CH2O"] # 0
    /\ \E dt \in {d \in StepSizes : d > 0} :
           \E cNew \in {rk4Step(state.concentrations, dt, state.temperature,
                                state.pressure, state.solarZenithAngle,
                                state.emissions)} :
               /\ C27_NoClamp(dt, cNew)
               /\ C27_Sum(cNew) > C27_Sum(state.concentrations)


\* C28: in every state, each of the ten per-species series of the buffer has
\* the length of the time array; and every sample a transition appends holds,
\* at its index i, the time and the concentrations of the state right after
\* the step that brought simulated time to time[i] (the transition leaving
\* the samples before it as they were).
C28_SeriesAligned ==
    /\ [](/\ DOMAIN timeSeriesData.concentrations = SPECIES
          /\ \A sp \in SPECIES :
                 Len(timeSeriesData.concentrations[sp]) = Len(timeSeriesData.time))
    /\ [][\A i \in (Len(timeSeriesData.time) + 1)..Len(timeSeriesData'.time) :
              \E st \in {C6_Steps(state, sampleStep'[i] - stepsTaken, timeStepSize)} :
                  /\ sampleStep'[i] > stepsTaken
                  /\ timeSeriesData'.time[i] = st.time
                  /\ \A sp \in SPECIES :
                         timeSeriesData'.concentrations[sp][i] = st.concentrations[sp]]_vars

\* a buffer of three samples taken under two vectors, a preset having been
\* loaded between them, the last sample older than the current state
C28_Witness ==
    /\ Len(timeSeriesData.time) >= 3
    /\ inputs >= 1
    /\ stepsTaken > sampleStep[Len(sampleStep)]
    /\ \E sp \in SPECIES :
           /\ timeSeriesData.concentrations[sp][1]
                  # timeSeriesData.concentrations[sp][3]
           /\ timeSeriesData.concentrations[sp][3] # state.concentrations[sp]


\* C29: loading a preset changes only the ten concentrations, which become
\* those of the preset: simulated time, zenith angle, running flag, every
\* environment parameter (the NOx level included), speed multiplier and step
\* size, the pending frame callback with its anchor, and every sample of the
\* buffer are as they were before.
C29_PresetOnlyConcentrations ==
    [][LoadPreset =>
         /\ \E p \in PresetInputs : state'.concentrations = presets[p]
         /\ state' = [state EXCEPT !.concentrations = state'.concentrations]
         /\ timeSeriesData' = timeSeriesData
         /\ animationFrameId' = animationFrameId
         /\ lastUpdateTime' = lastUpdateTime
         /\ pending' = pending
         /\ simSpeedFactor' = simSpeedFactor
         /\ timeStepSize' = timeStepSize]_vars

\* a preset other than the initial one loaded in mid-run: the clock running
\* with its callback pending, simulated time advanced, samples in the buffer
C29_Witness ==
    /\ inputs >= 1
    /\ state.concentrations = presets["polluted"]
    /\ state.isRunning
    /\ Cardinality(pending) = 1
    /\ state.time > 0
    /\ state.solarZenithAngle # 0
    /\ Len(timeSeriesData.time) >= 2


\* C30: reset leaves temperature, pressure, the CH4 and CO emission rates,
\* the diurnal toggle, the NOx level, the speed multiplier and the step size
\* as they were before it, while time, zenith angle, running flag, buffer and
\* concentrations take their initial values.
C30_ResetKeepsParameters ==
    [][Reset =>
         /\ state'.temperature = state.temperature
         /\ state'.pressure = state.pressure
         /\ state'.emissions = state.emissions
         /\ state'.diurnalCycle = state.diurnalCycle
         /\ state'.noxLevel = state.noxLevel
         /\ simSpeedFactor' = simSpeedFactor
         /\ timeStepSize' = timeStepSize
         /\ state'.time = 0
         /\ state'.solarZenithAngle = 0
         /\ ~state'.isRunning
         /\ timeSeriesData' = Loaded.timeSeriesData
         /\ state'.concentrations = presets["background"]]_vars

\* the state right after the reset of a clock that has run, with a parameter
\* that an input had changed before it still at its changed value
C30_Witness ==
    /\ inputs >= 1
    /\ lastUpdateTime > 0
    /\ stepsTaken = 0
    /\ ~state.isRunning
    /\ state.time = 0
    /\ timeSeriesData.time = <<>>
    /\ \/ state.temperature # Loaded.state.temperature
       \/ state.pressure # Loaded.state.pressure
       \/ state.emissions # Loaded.state.emissions
       \/ state.diurnalCycle # Loaded.state.diurnalCycle
       \/ state.noxLevel # Loaded.state.noxLevel
       \/ simSpeedFactor # 10
       \/ timeStepSize # 60

====
